---- MODULE Spec2Model ----
(***************************************************************************)
(* Orbyt: the repository graph builder (buildRepoGraph).                   *)
(*                                                                         *)
(* A path is a sequence of names: a path relative to the workspace root   *)
(* is <<"src", "x.ts">>, the absolute path of the same file is            *)
(* <<Root, "src", "x.ts">>.  Names are strings, so that basename lookups, *)
(* extension tests and the suffix search of the resolver are computed on  *)
(* the characters as the code computes them.                              *)
(***************************************************************************)
EXTENDS Integers, Sequences, FiniteSets, TLC

(***************************************************************************)
(* Bounds of the explored inputs.                                          *)
(***************************************************************************)
MaxFiles == 3
MaxImports == 2
MaxUnreadable == 1
MaxIgnore == 1
MaxCommits == 2
MaxRuns == 2
MaxReady == 2

(***************************************************************************)
(* Strings and paths.                                                      *)
(***************************************************************************)
Root == "/ws"

EndsWith(s, k) == Len(k) <= Len(s) /\ SubSeq(s, Len(s) - Len(k) + 1, Len(s)) = k

IsPrefix(p, q) == Len(p) <= Len(q) /\ SubSeq(q, 1, Len(p)) = p

Front(p) == SubSeq(p, 1, Len(p) - 1)

Last(p) == p[Len(p)]

Range(s) == {s[k] : k \in 1..Len(s)}

\* the sequences over S of length at most n
BoundedSeq(S, n) == UNION { [1..k -> S] : k \in 0..n }

\* the import lists of the files of D that a list of <<file, specifier>>
\* statements gives
ImportsFrom(D, stmts) ==
  [f \in D |->
     LET mine == SelectSeq(stmts, LAMBDA st : st[1] = f)
     IN  [k \in 1..Len(mine) |-> mine[k][2]]]

\* path.join(root, rel)
Abs(rel) == <<Root>> \o rel

\* path.relative(root, abs)
Relative(abs) == Tail(abs)

\* path.basename(p)
Basename(p) == Last(p)

\* path.dirname(rel) of a relative path: "." for a path of one segment
Dirname(rel) == IF Len(rel) <= 1 THEN <<".">> ELSE Front(rel)

\* the owning folder as the first segment of the path:
\* rel.includes(path.sep) ? rel.split(path.sep)[0] : "(root)"
OwningFolder_TopLevel(rel) == IF Len(rel) > 1 THEN <<rel[1]>> ELSE <<"(root)">>

\* path.dirname(rel) || "(root)": dirname never returns the empty string
OwningFolder(rel) == IF Dirname(rel) = <<>> THEN <<"(root)">> ELSE Dirname(rel)

(***************************************************************************)
(* The file system the build runs on.                                      *)
(***************************************************************************)
\* the files a workspace may hold
Candidates ==
  { <<"a.ts">>, <<"b.ts">>,
    <<"src", "x.ts">>, <<"src", "b.ts">>,
    <<"src", "sub", "w.ts">>,
    <<"lib", "y.ts">> }

\* further entries of the scan: a pruned directory at the top and below a
\* folder, a file outside the extension allowlist
ScanCandidates ==
  Candidates \cup
  { <<"build", "g.ts">>, <<"src", "node_modules", "m.js">>, <<"lib", "n.md">> }

\* the order in which readdirSync lists the entries of a directory
NameOrder ==
  << "a.c", "a.ts", "b.ts", "build", "g.ts", "lib", "m.js", "m.ts", "n.md",
     "node_modules", "s.jsx", "s.ts", "s.tsx", "src", "sub", "w.ts", "x.ts",
     "xa.c", "xa.c.js", "xa.c.ts", "y.ts" >>

\* the files of a workspace whose file m.ts imports xa.c or s: files that an
\* exact match, an appended extension or a suffix of the specifier may hit
ResolveCandidates ==
  { <<"xa.c">>, <<"lib", "a.c">>, <<"xa.c.js">>, <<"xa.c.ts">>,
    <<"s.ts">>, <<"s.jsx">>, <<"s.tsx">> }

\* the specifiers an import declaration or a require call may carry
Specifiers == { "./b", "b", "../lib/y.ts", "./sub/w.ts", "left-pad" }

\* the ignore patterns a .gitignore may hold: a pattern of one name matches
\* that name at any depth, a pattern with a slash is anchored at the root
IgnorePatterns == { <<"lib">>, <<"b.ts">>, <<"src", "sub">> }

\* the texts a file may hold: an empty file, a file with one import, a file
\* with two requires of one module, a file the parser rejects
Texts == { "", "import 'b'\nif(a&&b){}", "require('b');require('b')", "import 'b'\nfor(" }

\* texts with the tokens of the complexity pattern: alone, inside a longer
\* identifier, and with operators written with and without blanks
TokenTexts ==
  { "if(x)", "iffy", "elif x", "for(;;)while(1)", "case 1:catch(e)",
    "a&&b", "a && b", "a||b", "a || b", "if (a && b || c) {}" }

\* babelParser.parse(text) throws
ParseThrows(text) == text = "import 'b'\nfor("

\* the specifiers of the import declarations and require calls written in a
\* text, in source order: what the visitors push when the text parses
SpecifiersIn(text) ==
  CASE text = "import 'b'\nif(a&&b){}" -> <<"b">>
    [] text = "require('b');require('b')" -> <<"b", "b">>
    [] text = "import 'b'\nfor(" -> <<"b">>
    [] OTHER -> <<>>

VARIABLES
  tree,        \* the files of the workspace (relative paths)
  noRead,      \* the directories and files whose read fails
  igRules,     \* the patterns of .gitignore
  content,     \* file -> its text
  imports,     \* file -> the specifiers its syntax tree holds, in order
  badSyntax,   \* the files on which the parser throws
  gitLog,      \* file -> the number of lines git log prints for it
  pc,          \* the position of the build
  files,       \* const files: string[]
  folderSet,   \* const folderSet = new Set<string>(), in insertion order
  fileIndex,   \* const fileIndex = new Map<string, string>(), entries in order
  nodes,       \* the nodes of the graph, in insertion order
  edges,       \* the edges of the graph, in insertion order
  i,           \* the index of the running for loop
  result,      \* the value the last call of buildRepoGraph returned
  run,         \* the number of the running call of buildRepoGraph
  gin,         \* what a call of getGeminiExplanation is given and meets
  gem,         \* the position and the locals of that call
  host         \* the message handler: the ready and explainFile messages, the
               \* call that holds the thread, the messages posted to the webview

inputs == <<tree, noRead, igRules, content, imports, badSyntax, gitLog>>
vars == <<tree, noRead, igRules, content, imports, badSyntax, gitLog, pc, files, folderSet, fileIndex, nodes, edges, i, result, run, gin, gem, host>>
explain == <<gin, gem>>

\* the ready messages, in the order they are sent
Ready == 1..MaxReady

\* no message was sent to the handler and none was posted by it
NoHost ==
  [ thread |-> 0,
    st |-> [k \in Ready |-> "unsent"],
    value |-> [k \in Ready |-> [status |-> "none"]],
    posted |-> <<>>,
    ex |-> "none",
    exPath |-> <<>> ]

\* the directories of the workspace: the strict ancestors of its files
Dirs == UNION { { SubSeq(f, 1, n) : n \in 0..(Len(f) - 1) } : f \in tree }

\* fs.readdirSync(dir): the names directly below dir, in listing order
ChildNames(dir) == { f[Len(dir) + 1] : f \in { g \in tree : IsPrefix(dir, g) /\ Len(g) > Len(dir) } }

Entries(dir) == SelectSeq(NameOrder, LAMBDA n : n \in ChildNames(dir))

\* entry.isDirectory()
IsDirectory(rel) == rel \notin tree

(***************************************************************************)
(* walk                                                                    *)
(***************************************************************************)
\* the list without its last name
ExcludedDirs_NoBuild == { "node_modules", ".git", "dist", "out", ".next" }

ExcludedDirs == { "node_modules", ".git", "dist", "out", ".next", "build" }

ExtList == { "js", "ts", "jsx", "tsx", "py", "java", "cpp", "c", "cs", "php", "rb",
             "go", "rs", "html", "css", "json", "sh", "yml", "yaml" }

\* exts.test(entry.name)
ExtsTest(name) == \E e \in ExtList : EndsWith(name, "." \o e)

\* ig.ignores(rel)
Ignores(rel) ==
  \E p \in igRules :
    IF Len(p) = 1 THEN p[1] \in Range(rel) ELSE IsPrefix(p, rel)

RECURSIVE Walk(_)
RECURSIVE WalkEntries(_, _)

\* the body of the for loop of walk, over the entries that are left
WalkEntries(dir, names) ==
  IF names = <<>> THEN <<>>
  ELSE LET rel == Append(dir, Head(names))
           here == IF Ignores(rel) THEN <<>>
                   ELSE IF IsDirectory(rel)
                        THEN IF Head(names) \notin ExcludedDirs THEN Walk(rel) ELSE <<>>
                        ELSE IF ExtsTest(Head(names)) THEN <<Abs(rel)>> ELSE <<>>
       IN  here \o WalkEntries(dir, Tail(names))

\* walk without the catch: a failed read ends the whole scan
Walk_NoCatch(dir) ==
  IF \E d \in noRead : d \notin tree THEN <<>> ELSE WalkEntries(dir, Entries(dir))

\* walk(dir): the files it pushes, in order
Walk(dir) == IF dir \in noRead THEN <<>> ELSE WalkEntries(dir, Entries(dir))

(***************************************************************************)
(* Metrics of a file's text.                                               *)
(***************************************************************************)
WordChars ==
  { "a","b","c","d","e","f","g","h","i","j","k","l","m","n","o","p","q","r","s","t",
    "u","v","w","x","y","z","A","B","C","D","E","F","G","H","I","J","K","L","M","N",
    "O","P","Q","R","S","T","U","V","W","X","Y","Z","0","1","2","3","4","5","6","7",
    "8","9","_" }

CharAt(s, p) == SubSeq(s, p, p)

RECURSIVE CountChar(_, _)
CountChar(s, c) ==
  IF Len(s) = 0 THEN 0
  ELSE (IF CharAt(s, 1) = c THEN 1 ELSE 0) + CountChar(Tail(s), c)

\* content.split("\n").length
\* the line count as it would be were the line ends counted
Loc_LineEnds(text) == CountChar(text, "\n")

Loc(text) == CountChar(text, "\n") + 1

\* \b before position p (1-based): exactly one neighbour is a word character
WordBoundary(s, p) ==
  LET before == p > 1 /\ CharAt(s, p - 1) \in WordChars
      after == p <= Len(s) /\ CharAt(s, p) \in WordChars
  IN  before # after

\* the alternatives of the pattern, in order
Tokens == << "if", "for", "while", "case", "catch", "&&", "||" >>

\* the token \b(...)\b matches at position p, "" when none does
TokenAt(s, p) ==
  LET hits == SelectSeq(Tokens, LAMBDA tk :
                /\ p + Len(tk) - 1 <= Len(s)
                /\ SubSeq(s, p, p + Len(tk) - 1) = tk
                /\ WordBoundary(s, p)
                /\ WordBoundary(s, p + Len(tk)))
  IN  IF hits = <<>> THEN "" ELSE Head(hits)

RECURSIVE CountMatches(_, _)
\* (content.match(/\b(if|for|while|case|catch|&&|\|\|)\b/g) || []).length, from p on
CountMatches(s, p) ==
  IF p > Len(s) THEN 0
  ELSE IF TokenAt(s, p) = "" THEN CountMatches(s, p + 1)
       ELSE 1 + CountMatches(s, p + Len(TokenAt(s, p)))

Complexity(text) == CountMatches(text, 1) + 1

(***************************************************************************)
(* The graph (graphology, new Graph(): mixed, not multi, self loops        *)
(* allowed).  addNode throws on an id that is present, addEdge throws on   *)
(* a missing endpoint and on a directed edge that is present.              *)
(***************************************************************************)
NodeIds(ns) == { ns[k].id : k \in 1..Len(ns) }

\* graph.hasNode(id)
HasNode(ns, id) == id \in NodeIds(ns)

\* an edge with its attributes; kind stands for the color and size the adding
\* statement gives it
Edge(from, to, kind) == [from |-> from, to |-> to, kind |-> kind]

\* graph.hasEdge(from, to)
HasEdge(es, from, to) == \E k \in 1..Len(es) : es[k].from = from /\ es[k].to = to

\* graph.addNode(id, attrs) throws
AddNodeThrows(ns, id) == HasNode(ns, id)

\* graph.addEdge(from, to, attrs) throws
AddEdgeThrows(ns, es, from, to) ==
  \/ ~HasNode(ns, from)
  \/ ~HasNode(ns, to)
  \/ HasEdge(es, from, to)

\* graph.getNodeAttributes(id)
NodeOf(ns, id) == ns[CHOOSE k \in 1..Len(ns) : ns[k].id = id]

\* Set.add
SetAdd(seq, x) == IF x \in Range(seq) THEN seq ELSE Append(seq, x)

\* the index as it would be were a key set only when it is absent
MapSet_FirstWins(m, k, v) ==
  IF \E n \in 1..Len(m) : m[n][1] = k
  THEN m
  ELSE Append(m, <<k, v>>)

\* Map.set: a present key keeps its position
MapSet(m, k, v) ==
  IF \E n \in 1..Len(m) : m[n][1] = k
  THEN [n \in 1..Len(m) |-> IF m[n][1] = k THEN <<k, v>> ELSE m[n]]
  ELSE Append(m, <<k, v>>)

\* Map.get, <<>> for undefined
MapGet(m, k) ==
  IF \E n \in 1..Len(m) : m[n][1] = k
  THEN m[CHOOSE n \in 1..Len(m) : m[n][1] = k][2]
  ELSE <<>>

\* fs.readFileSync(f, "utf8") in try/catch with content = "" before it
ReadOrEmpty(abs) == IF Relative(abs) \in noRead THEN "" ELSE content[Relative(abs)]

(***************************************************************************)
(* buildRepoGraph, with folder nodes                                       *)
(***************************************************************************)
RECURSIVE CollectFolders(_, _)
RECURSIVE CollectFolders_ParentOnly(_, _)
\* CollectFolders that adds the immediate parent of each file alone
CollectFolders_ParentOnly(fs, acc) ==
  IF fs = <<>> THEN acc
  ELSE LET parts == Relative(Head(fs))
       IN  CollectFolders_ParentOnly(Tail(fs),
             IF Len(parts) > 1 THEN SetAdd(acc, Front(parts)) ELSE acc)

\* for (const f of files) for (i < parts.length - 1) folderSet.add(parts.slice(0, i + 1))
CollectFolders(fs, acc) ==
  IF fs = <<>> THEN acc
  ELSE LET parts == Relative(Head(fs))
           AddParts[n \in 0..(Len(parts) - 1)] ==
             IF n = 0 THEN acc ELSE SetAdd(AddParts[n - 1], SubSeq(parts, 1, n))
       IN  CollectFolders(Tail(fs), AddParts[Len(parts) - 1])

FolderNode(folder) ==
  [ id |-> folder, label |-> Basename(folder), cluster |-> folder,
    path |-> Abs(folder), loc |-> 0, complexity |-> 0, commits |-> 0 ]

RECURSIVE FolderNodes(_, _)
\* for (const folder of folderSet) if (!graph.hasNode(folder)) graph.addNode(folder, ...)
FolderNodes(fs, ns) ==
  IF fs = <<>> THEN ns
  ELSE FolderNodes(Tail(fs), IF HasNode(ns, Head(fs)) THEN ns ELSE Append(ns, FolderNode(Head(fs))))

RECURSIVE FolderEdges(_, _, _)
\* for (const folder of folderSet) { parent = dirname(folder);
\*   if (parent && parent !== "." && graph.hasNode(parent)) graph.addEdge(parent, folder) }
FolderEdges(fs, ns, acc) ==
  IF fs = <<>> \/ acc.thrown THEN acc
  ELSE LET folder == Head(fs)
           parent == Dirname(folder)
           step == IF parent # <<".">> /\ HasNode(ns, parent)
                   THEN IF AddEdgeThrows(ns, acc.es, parent, folder)
                        THEN [acc EXCEPT !.thrown = TRUE]
                        ELSE [acc EXCEPT !.es = Append(@, Edge(parent, folder, "hierarchy"))]
                   ELSE acc
       IN  FolderEdges(Tail(fs), ns, step)

\* git log --oneline -- f | lines, 0 when the command fails
Commits(abs) == gitLog[Relative(abs)]

FileNode(f) ==
  [ id |-> f, label |-> Basename(f), cluster |-> OwningFolder(Relative(f)),
    path |-> f, loc |-> Loc(ReadOrEmpty(f)), complexity |-> Complexity(ReadOrEmpty(f)),
    commits |-> Commits(f) ]

\* /\.(js|ts|jsx|tsx)$/i.test(file)
ParseableExts == { "js", "ts", "jsx", "tsx" }

IsParseable(f) == \E e \in ParseableExts : EndsWith(Basename(f), "." \o e)

\* the traversal as it would be were the specifiers collected although the
\* parser threw
ImportsOf_ParseErrorIgnored(f) ==
  IF IsParseable(f) /\ Relative(f) \notin noRead
  THEN imports[Relative(f)]
  ELSE <<>>

\* the specifiers the traversal of the syntax tree pushes; none when the
\* extension is not parsed, when the parser throws, or when the text is empty
ImportsOf(f) ==
  IF IsParseable(f) /\ Relative(f) \notin noRead /\ Relative(f) \notin badSyntax
  THEN imports[Relative(f)]
  ELSE <<>>

\* Array.from(fileIndex.entries()).find(([k]) => dep.endsWith(k))?.[1]
SuffixFind(m, dep) ==
  LET hits == SelectSeq(m, LAMBDA e : EndsWith(dep, e[1]))
  IN  IF hits = <<>> THEN <<>> ELSE Head(hits)[2]

\* the resolution as it would be were the suffix search made first
Resolve_SuffixFirst(m, dep) ==
  IF SuffixFind(m, dep) # <<>> THEN SuffixFind(m, dep)
  ELSE IF MapGet(m, dep) # <<>> THEN MapGet(m, dep)
  ELSE IF MapGet(m, dep \o ".js") # <<>> THEN MapGet(m, dep \o ".js")
  ELSE MapGet(m, dep \o ".ts")

\* the resolution as it would be were a specifier that matches nothing
\* given the first indexed file
Resolve_FirstIndexed(m, dep) ==
  IF MapGet(m, dep) # <<>> THEN MapGet(m, dep)
  ELSE IF MapGet(m, dep \o ".js") # <<>> THEN MapGet(m, dep \o ".js")
  ELSE IF MapGet(m, dep \o ".ts") # <<>> THEN MapGet(m, dep \o ".ts")
  ELSE IF SuffixFind(m, dep) # <<>> THEN SuffixFind(m, dep)
  ELSE IF m = <<>> THEN <<>> ELSE m[1][2]

\* fileIndex.get(dep) || fileIndex.get(dep + ".js") || fileIndex.get(dep + ".ts") || find(...)
Resolve(m, dep) ==
  IF MapGet(m, dep) # <<>> THEN MapGet(m, dep)
  ELSE IF MapGet(m, dep \o ".js") # <<>> THEN MapGet(m, dep \o ".js")
  ELSE IF MapGet(m, dep \o ".ts") # <<>> THEN MapGet(m, dep \o ".ts")
  ELSE SuffixFind(m, dep)

\* LinkImport without the edge between the owning folders
LinkImport_NoRollup(m, ns, file, dep, acc) ==
  LET depFile == Resolve(m, dep)
  IN  IF depFile # <<>> /\ HasNode(ns, depFile)
      THEN IF AddEdgeThrows(ns, acc.es, file, depFile)
           THEN [acc EXCEPT !.thrown = TRUE]
           ELSE [es |-> Append(acc.es, Edge(file, depFile, "import")), thrown |-> FALSE]
      ELSE acc

\* the body of for (const dep of imports)
LinkImport(m, ns, file, dep, acc) ==
  LET depFile == Resolve(m, dep)
      fromFolder == OwningFolder(Relative(file))
  IN  IF depFile # <<>> /\ HasNode(ns, depFile)
      THEN LET toFolder == OwningFolder(Relative(depFile))
               intra == fromFolder = toFolder
               es1 == Append(acc.es, Edge(file, depFile, "import"))
           IN  IF AddEdgeThrows(ns, acc.es, file, depFile)
               THEN [acc EXCEPT !.thrown = TRUE]
               ELSE IF ~intra /\ HasNode(ns, fromFolder) /\ HasNode(ns, toFolder)
                    THEN IF AddEdgeThrows(ns, es1, fromFolder, toFolder)
                         THEN [es |-> es1, thrown |-> TRUE]
                         ELSE [es |-> Append(es1, Edge(fromFolder, toFolder, "rollup")),
                               thrown |-> FALSE]
                    ELSE [es |-> es1, thrown |-> FALSE]
      ELSE acc

RECURSIVE LinkImports(_, _, _, _, _)
LinkImports(m, ns, file, deps, acc) ==
  IF deps = <<>> \/ acc.thrown THEN acc
  ELSE LinkImports(m, ns, file, Tail(deps), LinkImport(m, ns, file, Head(deps), acc))

(***************************************************************************)
(* Stats                                                                   *)
(***************************************************************************)
TopN == 5

RECURSIVE SumComplexity(_, _)
\* files.reduce((acc, f) => acc + (graph.getNodeAttribute(f, "complexity") || 0), 0)
SumComplexity(fs, ns) ==
  IF fs = <<>> THEN 0 ELSE NodeOf(ns, Head(fs)).complexity + SumComplexity(Tail(fs), ns)

\* the mean as it would be over all nodes of the graph, folder nodes included
AvgComplexity_OverAllNodes(fs, ns) ==
  IF Len(fs) > 0
  THEN (200 * SumComplexity(fs, ns) + Len(ns)) \div (2 * Len(ns))
  ELSE 0

\* avgComplexity.toFixed(2), as a number of hundredths
AvgComplexity(fs, ns) ==
  IF Len(fs) > 0
  THEN (200 * SumComplexity(fs, ns) + Len(fs)) \div (2 * Len(fs))
  ELSE 0

RECURSIVE InsertSorted(_, _)
\* a stable sort by commits, descending: n goes after the nodes that have
\* at least its commits
InsertSorted(sorted, n) ==
  IF sorted = <<>> THEN <<n>>
  ELSE IF Head(sorted).commits >= n.commits
       THEN <<Head(sorted)>> \o InsertSorted(Tail(sorted), n)
       ELSE <<n>> \o sorted

RECURSIVE SortByCommits(_)
SortByCommits(ns) ==
  IF ns = <<>> THEN <<>>
  ELSE InsertSorted(SortByCommits(Front(ns)), Last(ns))

\* the list as it would be without the filter on commits
MostEdited_NoFilter(ns) ==
  LET sorted == SortByCommits(ns)
      top == SubSeq(sorted, 1, IF Len(sorted) < TopN THEN Len(sorted) ELSE TopN)
  IN  [k \in 1..Len(top) |-> [file |-> top[k].label, commits |-> top[k].commits]]

\* [...graph.nodes()].filter(commits > 0).sort(...).slice(0, 5).map(...)
MostEdited(ns) ==
  LET kept == SelectSeq(ns, LAMBDA n : n.commits > 0)
      sorted == SortByCommits(kept)
      top == SubSeq(sorted, 1, IF Len(sorted) < TopN THEN Len(sorted) ELSE TopN)
  IN  [k \in 1..Len(top) |-> [file |-> top[k].label, commits |-> top[k].commits]]

\* the count as it would be were the root always counted as a cluster
Clusters_WithRoot(ns) == Cardinality({ ns[k].cluster : k \in 1..Len(ns) } \cup { <<".">> })

\* the count as it would be over the owning folders of the file nodes alone
Clusters_OfFileNodes(ns) == Cardinality({ ns[k].cluster : k \in { j \in 1..Len(ns) : ns[j].id[1] = Root } })

\* [...new Set(nodes.map(n => n.cluster))].length
Clusters(ns) == Cardinality({ ns[k].cluster : k \in 1..Len(ns) })

\* Output with totalFiles taken from the number of nodes
Output_TotalNodes(fs, ns, es) ==
  [ status |-> "returned",
    nodes |-> ns,
    edges |-> [k \in 1..Len(es) |-> [from |-> es[k].from, to |-> es[k].to]],
    stats |-> [ avgComplexity |-> AvgComplexity(fs, ns),
                mostEdited |-> MostEdited(ns),
                totalFiles |-> Len(ns),
                clusters |-> Clusters(ns) ] ]

\* Output with the nodes taken from the scanned files alone
Output_FileNodesOnly(fs, ns, es) ==
  [ status |-> "returned",
    nodes |-> SelectSeq(ns, LAMBDA n : n.id \in Range(fs)),
    edges |-> [k \in 1..Len(es) |-> [from |-> es[k].from, to |-> es[k].to]],
    stats |-> [ avgComplexity |-> AvgComplexity(fs, ns),
                mostEdited |-> MostEdited(ns),
                totalFiles |-> Len(fs),
                clusters |-> Clusters(ns) ] ]

Output(fs, ns, es) ==
  [ status |-> "returned",
    nodes |-> ns,
    edges |-> [k \in 1..Len(es) |-> [from |-> es[k].from, to |-> es[k].to]],
    stats |-> [ avgComplexity |-> AvgComplexity(fs, ns),
                mostEdited |-> MostEdited(ns),
                totalFiles |-> Len(fs),
                clusters |-> Clusters(ns) ] ]

\* an exception leaves buildRepoGraph: at names the loop it comes from
Thrown(at) == [ status |-> "thrown", at |-> at ]

TypeOK ==
  /\ pc \in {"walk", "folders", "folderNodes", "folderEdges", "fileNodes", "imports", "done", "thrown",
            "flatWalk", "flatIndex", "flatFiles", "idle"}
  /\ host.thread \in 0..MaxReady
  /\ run \in Nat
  /\ gem.pc \in {"idle", "called", "importing", "requesting", "resolved", "rejected"}

InitLocals ==
  /\ pc = "walk"
  /\ files = <<>>
  /\ folderSet = <<>>
  /\ fileIndex = <<>>
  /\ nodes = <<>>
  /\ edges = <<>>
  /\ i = 1
  /\ result = [status |-> "none"]
  /\ run = 1
  /\ host = NoHost

\* no call of getGeminiExplanation is under way
NotCalled == [pc |-> "idle", prompt |-> [file |-> "", code |-> ""],
              requested |-> FALSE, out |-> [kind |-> "none"]]

InitBuild ==
  /\ InitLocals
  /\ gin = [key |-> "", path |-> <<>>, code |-> "", sdk |-> "loads", reply |-> "text",
            err |-> [kind |-> "Error", message |-> ""]]
  /\ gem = NotCalled

\* the workspaces whose files import each other: every read succeeds, no
\* ignore rule
Init ==
  /\ tree \in { t \in SUBSET Candidates : Cardinality(t) <= MaxFiles }
  /\ noRead = {}
  /\ igRules = {}
  /\ content = [f \in tree |-> "x"]
  /\ imports \in { ImportsFrom(tree, st) : st \in BoundedSeq(tree \X Specifiers, MaxImports) }
  /\ badSyntax = {}
  /\ gitLog = [f \in tree |-> 0]
  /\ InitBuild

\* the scans of a workspace: ignore rules, pruned directories, read failures
InitScan ==
  /\ tree \in { t \in SUBSET ScanCandidates : Cardinality(t) <= MaxFiles }
  /\ noRead \in { u \in SUBSET (Dirs \cup tree) : Cardinality(u) <= MaxUnreadable }
  /\ igRules \in { g \in SUBSET IgnorePatterns : Cardinality(g) <= MaxIgnore }
  /\ content = [f \in tree |-> "x"]
  /\ imports = [f \in tree |-> <<>>]
  /\ badSyntax = {}
  /\ gitLog = [f \in tree |-> 0]
  /\ InitBuild

\* the workspaces whose files hold one of the texts: the imports and the
\* parse failures are those of the texts
InitText ==
  /\ tree \in { t \in SUBSET Candidates : Cardinality(t) <= MaxFiles }
  /\ noRead = {}
  /\ igRules = {}
  /\ content \in [tree -> Texts]
  /\ imports = [f \in tree |-> SpecifiersIn(content[f])]
  /\ badSyntax = { f \in tree : ParseThrows(content[f]) }
  /\ gitLog = [f \in tree |-> 0]
  /\ InitBuild

\* the workspaces of TopN files or more, each file with a number of commits
\* in the git log
InitStats ==
  /\ tree \in { t \in SUBSET Candidates : Cardinality(t) >= TopN }
  /\ noRead = {}
  /\ igRules = {}
  /\ content = [f \in tree |-> "x"]
  /\ imports = [f \in tree |-> <<>>]
  /\ badSyntax = {}
  /\ gitLog \in [tree -> 0..MaxCommits]
  /\ InitBuild

\* the workspaces of m.ts and some of the files its one specifier may hit
InitResolve ==
  /\ tree \in { t \cup { <<"m.ts">> } : t \in SUBSET ResolveCandidates }
  /\ noRead = {}
  /\ igRules = {}
  /\ content = [f \in tree |-> "x"]
  /\ imports \in { [f \in tree |-> IF f = <<"m.ts">> THEN <<dep>> ELSE <<>>] : dep \in {"xa.c", "s"} }
  /\ badSyntax = {}
  /\ gitLog = [f \in tree |-> 0]
  /\ InitBuild

\* the workspaces of one or two files that hold texts with tokens
InitTokens ==
  /\ tree \in (SUBSET { <<"a.ts">>, <<"src", "x.ts">> }) \ { {} }
  /\ noRead = {}
  /\ igRules = {}
  /\ content \in [tree -> TokenTexts]
  /\ imports = [f \in tree |-> <<>>]
  /\ badSyntax = {}
  /\ gitLog = [f \in tree |-> 0]
  /\ InitBuild

\* walk(root)
DoWalk ==
  /\ pc = "walk"
  /\ files' = files \o Walk(<<>>)
  /\ pc' = "folders"
  /\ UNCHANGED <<inputs, explain, host, run, folderSet, fileIndex, nodes, edges, i, result>>

\* lines 121-128
DoCollectFolders ==
  /\ pc = "folders"
  /\ folderSet' = CollectFolders(files, <<>>)
  /\ pc' = "folderNodes"
  /\ UNCHANGED <<inputs, explain, host, run, files, fileIndex, nodes, edges, i, result>>

\* lines 130-147
DoFolderNodes ==
  /\ pc = "folderNodes"
  /\ nodes' = FolderNodes(folderSet, nodes)
  /\ pc' = "folderEdges"
  /\ UNCHANGED <<inputs, explain, host, run, files, folderSet, fileIndex, edges, i, result>>

\* lines 149-155
DoFolderEdges ==
  /\ pc = "folderEdges"
  /\ LET r == FolderEdges(folderSet, nodes, [es |-> edges, thrown |-> FALSE])
     IN  /\ edges' = r.es
         /\ pc' = IF r.thrown THEN "thrown" ELSE "fileNodes"
         /\ result' = IF r.thrown THEN Thrown("folderEdges") ELSE result
  /\ i' = 1
  /\ UNCHANGED <<inputs, explain, host, run, files, folderSet, fileIndex, nodes>>

\* lines 158-191, one iteration
AddFileNode ==
  /\ pc = "fileNodes"
  /\ i <= Len(files)
  /\ LET f == files[i]
         folder == OwningFolder(Relative(f))
         ns1 == Append(nodes, FileNode(f))
     IN  /\ fileIndex' = MapSet(fileIndex, Basename(f), f)
         /\ IF AddNodeThrows(nodes, f)
            THEN /\ pc' = "thrown"
                 /\ result' = Thrown("fileNodes")
                 /\ UNCHANGED <<nodes, edges>>
            ELSE /\ nodes' = ns1
                 /\ IF HasNode(ns1, folder)
                    THEN IF AddEdgeThrows(ns1, edges, folder, f)
                         THEN pc' = "thrown" /\ result' = Thrown("fileNodes") /\ UNCHANGED edges
                         ELSE /\ edges' = Append(edges, Edge(folder, f, "hierarchy"))
                              /\ UNCHANGED <<pc, result>>
                    ELSE UNCHANGED <<pc, edges, result>>
  /\ i' = i + 1
  /\ UNCHANGED <<inputs, explain, host, run, files, folderSet>>

\* the end of the loop of lines 158-191
EndFileNodes ==
  /\ pc = "fileNodes"
  /\ i > Len(files)
  /\ pc' = "imports"
  /\ i' = 1
  /\ UNCHANGED <<inputs, explain, host, run, files, folderSet, fileIndex, nodes, edges, result>>

\* lines 194-241, one iteration
LinkFile ==
  /\ pc = "imports"
  /\ i <= Len(files)
  /\ LET r == LinkImports(fileIndex, nodes, files[i], ImportsOf(files[i]),
                          [es |-> edges, thrown |-> FALSE])
     IN  /\ edges' = r.es
         /\ pc' = IF r.thrown THEN "thrown" ELSE pc
         /\ result' = IF r.thrown THEN Thrown("imports") ELSE result
  /\ i' = i + 1
  /\ UNCHANGED <<inputs, explain, host, run, files, folderSet, fileIndex, nodes>>

\* lines 243-273
DoStats ==
  /\ pc = "imports"
  /\ i > Len(files)
  /\ result' = Output(files, nodes, edges)
  /\ pc' = "done"
  /\ UNCHANGED <<inputs, explain, host, run, files, folderSet, fileIndex, nodes, edges, i>>

Next ==
  \/ DoWalk
  \/ DoCollectFolders
  \/ DoFolderNodes
  \/ DoFolderEdges
  \/ AddFileNode
  \/ EndFileNodes
  \/ LinkFile
  \/ DoStats

Spec == Init /\ [][Next]_vars

SpecScan == InitScan /\ [][Next]_vars

SpecText == InitText /\ [][Next]_vars

SpecStats == InitStats /\ [][Next]_vars

SpecResolve == InitResolve /\ [][Next]_vars

SpecTokens == InitTokens /\ [][Next]_vars

\* a second call as it would be were files a variable of the module, kept
\* from one call to the next
Rerun_KeepFiles ==
  /\ pc \in {"done", "thrown"}
  /\ run < MaxRuns
  /\ run' = run + 1
  /\ pc' = "walk"
  /\ folderSet' = <<>>
  /\ fileIndex' = <<>>
  /\ nodes' = <<>>
  /\ edges' = <<>>
  /\ i' = 1
  /\ UNCHANGED <<inputs, explain, host, files, result>>

\* buildRepoGraph is called again once the earlier call has settled: files,
\* graph, fileIndex and folderSet are created anew by the call, and the
\* caller still holds what the earlier call returned
Rerun ==
  /\ pc \in {"done", "thrown"}
  /\ run < MaxRuns
  /\ run' = run + 1
  /\ pc' = "walk"
  /\ files' = <<>>
  /\ folderSet' = <<>>
  /\ fileIndex' = <<>>
  /\ nodes' = <<>>
  /\ edges' = <<>>
  /\ i' = 1
  /\ UNCHANGED <<inputs, explain, host, result>>

\* the workspaces of the scan, of the texts and of the git log
InitRerun == InitScan \/ InitText \/ InitStats

NextRerun == Next \/ Rerun

SpecRerun == InitRerun /\ [][NextRerun]_vars

\* ---------------------------------------------------------------------------
\* The flat buildRepoGraph: no folder nodes, one loop over the files that
\* adds the node of a file and then the edges of its imports.

\* the specifiers of the flat workspaces
FlatSpecifiers == { "b", "../lib/y.ts", "left-pad" }

InitFlat ==
  /\ tree \in { t \in SUBSET Candidates : Cardinality(t) <= MaxFiles }
  /\ noRead \in { u \in SUBSET tree : Cardinality(u) <= MaxUnreadable }
  /\ igRules = {}
  /\ content = [f \in tree |-> "x"]
  /\ imports \in { ImportsFrom(tree, st) : st \in BoundedSeq(tree \X FlatSpecifiers, MaxImports) }
  /\ badSyntax = {}
  /\ gitLog = [f \in tree |-> 0]
  /\ pc = "flatWalk"
  /\ files = <<>>
  /\ folderSet = <<>>
  /\ fileIndex = <<>>
  /\ nodes = <<>>
  /\ edges = <<>>
  /\ i = 1
  /\ result = [status |-> "none"]
  /\ run = 1
  /\ gin = [key |-> "", path |-> <<>>, code |-> "", sdk |-> "loads", reply |-> "text",
            err |-> [kind |-> "Error", message |-> ""]]
  /\ gem = NotCalled
  /\ host = NoHost

\* rel.includes(path.sep) ? rel.split(path.sep)[0] : "(root)"
FlatCluster(rel) == IF Len(rel) > 1 THEN <<rel[1]>> ELSE <<"(root)">>

\* the attributes of the node of a file that was read
FlatNode(f) ==
  [ id |-> f, label |-> Basename(f), cluster |-> FlatCluster(Relative(f)),
    path |-> f, loc |-> Loc(content[Relative(f)]),
    complexity |-> Complexity(content[Relative(f)]), commits |-> Commits(f) ]

RECURSIVE IndexAll(_, _)
\* for (const f of files) fileIndex.set(path.basename(f), f)
IndexAll(fs, m) ==
  IF fs = <<>> THEN m ELSE IndexAll(Tail(fs), MapSet(m, Basename(Head(fs)), Head(fs)))

RECURSIVE FlatLink(_, _, _, _, _)
\* for (const dep of imports) { depFile = ...;
\*   if (depFile && graph.hasNode(depFile) && !graph.hasEdge(file, depFile)) graph.addEdge(file, depFile) }
FlatLink(m, ns, file, deps, es) ==
  IF deps = <<>> THEN es
  ELSE LET depFile == Resolve(m, Head(deps))
           es1 == IF depFile # <<>> /\ HasNode(ns, depFile) /\ ~HasEdge(es, file, depFile)
                  THEN Append(es, Edge(file, depFile, "import"))
                  ELSE es
       IN  FlatLink(m, ns, file, Tail(deps), es1)

\* graph.getNodeAttribute(f, "complexity") throws for a file that is no node
FlatStatsThrow(fs, ns) == \E k \in 1..Len(fs) : ~HasNode(ns, fs[k])

\* [...graph.nodes()].sort(...).slice(0, 5).map(...): no filter on commits
FlatMostEdited(ns) ==
  LET sorted == SortByCommits(ns)
      top == SubSeq(sorted, 1, IF Len(sorted) < TopN THEN Len(sorted) ELSE TopN)
  IN  [k \in 1..Len(top) |-> [file |-> top[k].label, commits |-> top[k].commits]]

\* the value the flat build returns
FlatOutput(fs, ns, es) ==
  [ status |-> "returned",
    nodes |-> ns,
    edges |-> [k \in 1..Len(es) |-> [from |-> es[k].from, to |-> es[k].to]],
    stats |-> [ avgComplexity |-> AvgComplexity(fs, ns),
                mostEdited |-> FlatMostEdited(ns),
                totalFiles |-> Len(fs),
                clusters |-> Clusters(ns) ] ]

\* walk(root)
FlatWalk ==
  /\ pc = "flatWalk"
  /\ files' = files \o Walk(<<>>)
  /\ pc' = "flatIndex"
  /\ UNCHANGED <<inputs, explain, host, run, folderSet, fileIndex, nodes, edges, i, result>>

\* the loop that fills the basename index
FlatIndex ==
  /\ pc = "flatIndex"
  /\ fileIndex' = IndexAll(files, fileIndex)
  /\ pc' = "flatFiles"
  /\ i' = 1
  /\ UNCHANGED <<inputs, explain, host, run, files, folderSet, nodes, edges, result>>

\* one pass of the loop over the files: a file whose read fails is skipped,
\* any other file gets its node and then the edges of its imports
FlatFile ==
  /\ pc = "flatFiles"
  /\ i <= Len(files)
  /\ LET file == files[i]
         ns1 == IF HasNode(nodes, file) THEN nodes ELSE Append(nodes, FlatNode(file))
     IN  IF Relative(file) \in noRead
         THEN UNCHANGED <<nodes, edges>>
         ELSE /\ nodes' = ns1
              /\ edges' = FlatLink(fileIndex, ns1, file, ImportsOf(file), edges)
  /\ i' = i + 1
  /\ UNCHANGED <<inputs, explain, host, run, files, folderSet, fileIndex, pc, result>>

\* the nodes, the edges and the stats are read from the graph
FlatStats ==
  /\ pc = "flatFiles"
  /\ i > Len(files)
  /\ IF FlatStatsThrow(files, nodes)
     THEN pc' = "thrown" /\ result' = Thrown("stats")
     ELSE pc' = "done" /\ result' = FlatOutput(files, nodes, edges)
  /\ UNCHANGED <<inputs, explain, host, run, files, folderSet, fileIndex, nodes, edges, i>>

NextFlat == FlatWalk \/ FlatIndex \/ FlatFile \/ FlatStats

SpecFlat == InitFlat /\ [][NextFlat]_vars

\* ---------------------------------------------------------------------------
\* getGeminiExplanation(filePath, code)

PromptCodeLimit == 3000

\* code.slice(0, 3000)
Slice(code, n) == SubSeq(code, 1, IF Len(code) < n THEN Len(code) ELSE n)

RECURSIVE Doubled(_, _)
\* a text of Len(text) * 2^n characters
Doubled(text, n) == IF n = 0 THEN text ELSE LET half == Doubled(text, n - 1) IN half \o half

\* the codes handed over: the texts of the files and one of 4096 characters
Codes == Texts \cup { Doubled("x", 12) }

\* what import("@google/genai"), the constructor or generateContent may throw
Errors == { [kind |-> "Error", message |-> "fetch failed"],
            [kind |-> "Error", message |-> ""],
            [kind |-> "string", message |-> "quota"] }

\* err.message || err, as the template literal renders it: an Error with an
\* empty message renders as its name, a thrown string has no message
ErrText(err) ==
  IF err.kind = "Error"
  THEN IF err.message # "" THEN err.message ELSE "Error"
  ELSE err.message

\* the texts returned, each without its leading symbol
KeyMissing == "GEMINI_API_KEY missing."
NoExplanation == "No explanation generated."
RequestFailed(err) == "Gemini request failed: " \o ErrText(err)

\* the two holes of the prompt template
Prompt(filePath, code) == [file |-> Basename(filePath), code |-> Slice(code, PromptCodeLimit)]

TextValue(text) == [kind |-> "text", text |-> text]

InitGemini ==
  /\ tree = {}
  /\ noRead = {}
  /\ igRules = {}
  /\ content = <<>>
  /\ imports = <<>>
  /\ badSyntax = {}
  /\ gitLog = <<>>
  /\ InitLocals
  /\ gin \in [key : {"", "k"}, path : { Abs(f) : f \in Candidates }, code : Codes,
               sdk : {"loads", "fails"}, reply : {"text", "noText", "fails"}, err : Errors]
  /\ gem = [NotCalled EXCEPT !.pc = "called"]

\* from the call to the first await: the key test and the prompt
GemStart ==
  /\ gem.pc = "called"
  /\ gem' = IF gin.key = ""
            THEN [gem EXCEPT !.pc = "resolved", !.out = TextValue(KeyMissing)]
            ELSE [gem EXCEPT !.pc = "importing", !.prompt = Prompt(gin.path, gin.code)]
  /\ UNCHANGED <<inputs, host, gin, pc, files, folderSet, fileIndex, nodes, edges, i, result, run>>

\* the import as it would be outside the try block
GemImport_NoCatch ==
  /\ gem.pc = "importing"
  /\ gem' = IF gin.sdk = "fails"
            THEN [gem EXCEPT !.pc = "rejected", !.out = [kind |-> "error"]]
            ELSE [gem EXCEPT !.pc = "requesting", !.requested = TRUE]
  /\ UNCHANGED <<inputs, host, gin, pc, files, folderSet, fileIndex, nodes, edges, i, result, run>>

\* await import("@google/genai") settles: on failure the catch returns the
\* error text, otherwise the client is made and generateContent is called
GemImport ==
  /\ gem.pc = "importing"
  /\ gem' = IF gin.sdk = "fails"
            THEN [gem EXCEPT !.pc = "resolved", !.out = TextValue(RequestFailed(gin.err))]
            ELSE [gem EXCEPT !.pc = "requesting", !.requested = TRUE]
  /\ UNCHANGED <<inputs, host, gin, pc, files, folderSet, fileIndex, nodes, edges, i, result, run>>

\* await ai.models.generateContent(...) settles
GemReply ==
  /\ gem.pc = "requesting"
  /\ gem' = [gem EXCEPT !.pc = "resolved",
                        !.out = CASE gin.reply = "text" -> TextValue("An explanation.")
                                  [] gin.reply = "noText" -> TextValue(NoExplanation)
                                  [] OTHER -> TextValue(RequestFailed(gin.err))]
  /\ UNCHANGED <<inputs, host, gin, pc, files, folderSet, fileIndex, nodes, edges, i, result, run>>

NextGemini == GemStart \/ GemImport \/ GemReply

SpecGemini == InitGemini /\ [][NextGemini]_vars

(***************************************************************************)
(* The message handler of the panel.  The handler is an async function:    *)
(* it runs on the one thread of the extension host until it awaits, and    *)
(* buildRepoGraph holds no await, so a build runs from its call to its end *)
(* before any other handler code.                                          *)
(***************************************************************************)
\* the files of the workspaces the handler is run on
HostCandidates == { <<"a.ts">>, <<"b.ts">>, <<"src", "x.ts">> }

\* the build is not running: no ready message was handled yet
IdleLocals ==
  /\ pc = "idle"
  /\ files = <<>>
  /\ folderSet = <<>>
  /\ fileIndex = <<>>
  /\ nodes = <<>>
  /\ edges = <<>>
  /\ i = 1
  /\ result = [status |-> "none"]
  /\ run = 0

\* workspaces with unreadable directories and files, texts with imports,
\* repeated imports and syntax errors
InitHost ==
  /\ tree \in { t \in SUBSET HostCandidates : Cardinality(t) <= MaxFiles }
  /\ noRead \in { u \in SUBSET (Dirs \cup tree) : Cardinality(u) <= MaxUnreadable }
  /\ igRules = {}
  /\ content \in [tree -> Texts]
  /\ imports = [f \in tree |-> SpecifiersIn(content[f])]
  /\ badSyntax = { f \in tree : ParseThrows(content[f]) }
  /\ gitLog = [f \in tree |-> 0]
  /\ IdleLocals
  /\ gin = [key |-> "", path |-> <<>>, code |-> "", sdk |-> "loads", reply |-> "text",
            err |-> [kind |-> "Error", message |-> ""]]
  /\ gem = NotCalled
  /\ host = NoHost

\* the webview posts { type: "ready" }
ReadySend ==
  \E k \in Ready :
    /\ host.st[k] = "unsent"
    /\ k > 1 => host.st[k - 1] # "unsent"
    /\ host' = [host EXCEPT !.st[k] = "sent"]
    /\ UNCHANGED <<inputs, explain, pc, files, folderSet, fileIndex, nodes, edges, i, result, run>>

\* the handler as it would be were the graph a variable of the module that
\* every build adds to
ReadyReceive_SharedGraph ==
  \E k \in Ready :
    /\ host.thread = 0
    /\ host.st[k] = "sent"
    /\ \A j \in 1..(k - 1) : host.st[j] # "sent"
    /\ host' = [host EXCEPT !.thread = k, !.st[k] = "building"]
    /\ run' = k
    /\ pc' = "walk"
    /\ files' = <<>>
    /\ folderSet' = <<>>
    /\ fileIndex' = <<>>
    /\ i' = 1
    /\ UNCHANGED <<inputs, explain, nodes, edges, result>>

\* the handler takes a ready message when the thread is free and calls
\* buildRepoGraph, which creates its files, graph, index and folder set
ReadyReceive ==
  \E k \in Ready :
    /\ host.thread = 0
    /\ host.st[k] = "sent"
    /\ \A j \in 1..(k - 1) : host.st[j] # "sent"
    /\ host' = [host EXCEPT !.thread = k, !.st[k] = "building"]
    /\ run' = k
    /\ pc' = "walk"
    /\ files' = <<>>
    /\ folderSet' = <<>>
    /\ fileIndex' = <<>>
    /\ nodes' = <<>>
    /\ edges' = <<>>
    /\ i' = 1
    /\ UNCHANGED <<inputs, explain, result>>

\* buildRepoGraph has settled: the handler awaits a fulfilled promise and
\* keeps its value, or is rejected by a build that threw; the thread is free
ReadyAwait ==
  \E k \in Ready :
    /\ host.thread = k
    /\ host.st[k] = "building"
    /\ pc \in {"done", "thrown"}
    /\ host' = IF pc = "done"
               THEN [host EXCEPT !.thread = 0, !.st[k] = "awaiting", !.value[k] = result]
               ELSE [host EXCEPT !.thread = 0, !.st[k] = "failed"]
    /\ UNCHANGED <<inputs, explain, pc, files, folderSet, fileIndex, nodes, edges, i, result, run>>

\* panel.webview.postMessage({ type: "graphData", data: repoGraph })
ReadyPost ==
  \E k \in Ready :
    /\ host.thread = 0
    /\ host.st[k] = "awaiting"
    /\ host' = [host EXCEPT !.st[k] = "posted",
                            !.posted = Append(@, [type |-> "graphData", of |-> k, data |-> host.value[k]])]
    /\ UNCHANGED <<inputs, explain, pc, files, folderSet, fileIndex, nodes, edges, i, result, run>>

\* the steps of the extension host
HostSteps == Next \/ ReadyReceive \/ ReadyAwait \/ ReadyPost

NextHost == ReadySend \/ HostSteps

\* the host takes a step whenever it has one to take; the webview is free
\* to send or not
SpecHost == InitHost /\ [][NextHost]_vars /\ WF_vars(HostSteps)

\* ---------------------------------------------------------------------------
\* the explainFile message

\* the paths the webview can ask about: d.path of every node of a graph it
\* was sent
ExplainPaths ==
  UNION { { host.posted[p].data.nodes[n].path : n \in 1..Len(host.posted[p].data.nodes) } :
            p \in { q \in 1..Len(host.posted) : host.posted[q].type = "graphData" } }

\* workspaces of files at the root and in a folder, one of them possibly
\* unreadable, and every outcome of the key test, the import and the request
InitExplain ==
  /\ tree \in (SUBSET { <<"a.ts">>, <<"src", "x.ts">> }) \ { {} }
  /\ noRead \in { u \in SUBSET tree : Cardinality(u) <= MaxUnreadable }
  /\ igRules = {}
  /\ content = [f \in tree |-> "import 'b'\nif(a&&b){}"]
  /\ imports = [f \in tree |-> SpecifiersIn(content[f])]
  /\ badSyntax = {}
  /\ gitLog = [f \in tree |-> 0]
  /\ IdleLocals
  /\ gin \in [key : {"", "k"}, path : { <<>> }, code : { "" },
               sdk : {"loads", "fails"}, reply : {"text", "noText", "fails"},
               err : { [kind |-> "Error", message |-> "fetch failed"] }]
  /\ gem = NotCalled
  /\ host = NoHost

\* a click on a node and on its Explain button: the webview posts
\* { type: "explainFile", path: d.path }
ExplainSend ==
  \E p \in ExplainPaths :
    /\ host.ex = "none"
    /\ host' = [host EXCEPT !.ex = "sent", !.exPath = p]
    /\ UNCHANGED <<inputs, explain, pc, files, folderSet, fileIndex, nodes, edges, i, result, run>>

\* fs.readFileSync(msg.path, "utf8") throws for a directory and for a file
\* that cannot be read
ReadThrows(p) == Relative(p) \notin tree \/ Relative(p) \in noRead

\* the handler takes the explainFile message: it reads the file, outside any
\* try block, and calls getGeminiExplanation with the path and the text
ExplainReceive ==
  /\ host.thread = 0
  /\ host.ex = "sent"
  /\ IF ReadThrows(host.exPath)
     THEN /\ host' = [host EXCEPT !.ex = "failed"]
          /\ UNCHANGED explain
     ELSE /\ host' = [host EXCEPT !.ex = "awaiting"]
          /\ gin' = [gin EXCEPT !.path = host.exPath, !.code = content[Relative(host.exPath)]]
          /\ gem' = [NotCalled EXCEPT !.pc = "called"]
  /\ UNCHANGED <<inputs, pc, files, folderSet, fileIndex, nodes, edges, i, result, run>>

\* getGeminiExplanation has resolved:
\* panel.webview.postMessage({ type: "explanation", path: msg.path, explanation })
ExplainPost ==
  /\ host.thread = 0
  /\ host.ex = "awaiting"
  /\ gem.pc = "resolved"
  /\ host' = [host EXCEPT !.ex = "posted",
                          !.posted = Append(@, [type |-> "explanation", path |-> host.exPath,
                                                explanation |-> gem.out])]
  /\ UNCHANGED <<inputs, explain, pc, files, folderSet, fileIndex, nodes, edges, i, result, run>>

\* the steps of the extension host for both messages
ExplainSteps == HostSteps \/ ExplainReceive \/ NextGemini \/ ExplainPost

NextExplain == ReadySend \/ ExplainSend \/ ExplainSteps

\* the host takes a step whenever it has one to take; the webview is free
\* to send or not
SpecExplain == InitExplain /\ [][NextExplain]_vars /\ WF_vars(ExplainSteps)

(***************************************************************************)
(* Properties                                                              *)
(***************************************************************************)
Done == pc = "done"

Ended == pc \in {"done", "thrown"}

\* a file node is keyed by an absolute path, a folder node by a relative one
IsFileId(id) == id[1] = Root

FileNodeIds(ns) == { id \in NodeIds(ns) : IsFileId(id) }

FolderNodeIds(ns) == { id \in NodeIds(ns) : ~IsFileId(id) }

\* the number of edges from -> to among a sequence of edges
EdgeCount(es, from, to) == Cardinality({ k \in 1..Len(es) : es[k].from = from /\ es[k].to = to })

KindCount(es, from, to, kind) ==
  Cardinality({ k \in 1..Len(es) : es[k] = Edge(from, to, kind) })

\* the file the p-th specifier of f resolves to once the index is complete
TargetOf(f, p) == Resolve(fileIndex, ImportsOf(f)[p])

Resolved(f, p) == TargetOf(f, p) # <<>> /\ HasNode(nodes, TargetOf(f, p))

\* the targets that two or more specifiers of f resolve to
RepeatedTargets(f) ==
  { TargetOf(f, p) : p \in { q \in 1..Len(ImportsOf(f)) :
       /\ Resolved(f, q)
       /\ \E r \in 1..Len(ImportsOf(f)) : r # q /\ TargetOf(f, r) = TargetOf(f, q) } }

\* C1: when two or more specifiers of one file resolve to the same target,
\* the build returns and its output holds exactly one edge file -> target.
C1_RepeatedImportIsOneEdge ==
  Ended =>
    \A f \in Range(files) :
      RepeatedTargets(f) # {} =>
        /\ Done
        /\ \A t \in RepeatedTargets(f) : EdgeCount(result.edges, f, t) = 1

\* the pairs <<file, target>> of the imports that cross from folder X to
\* folder Y
Crossings(X, Y) ==
  { ft \in Range(files) \X Range(files) :
      /\ \E p \in 1..Len(ImportsOf(ft[1])) : Resolved(ft[1], p) /\ TargetOf(ft[1], p) = ft[2]
      /\ OwningFolder(Relative(ft[1])) = X
      /\ OwningFolder(Relative(ft[2])) = Y }

\* C2: when the imports of two or more pairs file -> target cross from
\* folder X to another folder Y (here: one that is not a child of X, so that
\* no hierarchy edge X -> Y is in the way), the build returns and its graph
\* holds exactly one rollup edge X -> Y.
C2_RepeatedCrossingIsOneRollup ==
  Ended =>
    \A X \in FolderNodeIds(nodes), Y \in FolderNodeIds(nodes) :
      (X # Y /\ Dirname(Y) # X /\ Cardinality(Crossings(X, Y)) >= 2) =>
        /\ Done
        /\ KindCount(edges, X, Y, "rollup") = 1

\* C3: a file that imports "./b" next to a scanned b.ts has the edge
\* file -> b.ts in the output.
C3_RelativeSpecifierResolves ==
  Done =>
    \A f \in Range(files) :
      LET sibling == Front(f) \o <<"b.ts">>
      IN  (f # sibling /\ "./b" \in Range(ImportsOf(f)) /\ sibling \in Range(files)) =>
            EdgeCount(result.edges, f, sibling) >= 1

\* the import edges of the graph whose endpoints have different owning folders
InterFolder(e) ==
  /\ e.kind = "import"
  /\ OwningFolder(Relative(e.from)) # OwningFolder(Relative(e.to))

RollupOf(e) == Edge(OwningFolder(Relative(e.from)), OwningFolder(Relative(e.to)), "rollup")

\* C4 as claimed: every import edge between files of different owning
\* folders comes with a rollup edge between the two owning folders.
C4_EveryCrossingHasRollup ==
  Done => \A e \in Range(edges) : InterFolder(e) => RollupOf(e) \in Range(edges)

BothFoldersAreNodes(e) ==
  /\ HasNode(nodes, OwningFolder(Relative(e.from)))
  /\ HasNode(nodes, OwningFolder(Relative(e.to)))

\* C4 amended: every import edge between files of different owning folders
\* that are both folder nodes (neither file sits directly in the root) comes
\* with a rollup edge between the two folders, and every rollup edge comes
\* from such an import edge: an import inside one folder, or with an end
\* directly in the root, contributes none.
C4_CrossingOfFolderNodesHasRollup ==
  Done =>
    /\ \A e \in Range(edges) :
         (InterFolder(e) /\ BothFoldersAreNodes(e)) => RollupOf(e) \in Range(edges)
    /\ \A r \in Range(edges) :
         r.kind = "rollup" =>
           /\ r.from # r.to
           /\ \E e \in Range(edges) :
                InterFolder(e) /\ BothFoldersAreNodes(e) /\ RollupOf(e) = r

C4_Witness ==
  /\ Done
  /\ \E e \in Range(edges) :
       InterFolder(e) /\ BothFoldersAreNodes(e) /\ RollupOf(e) \in Range(edges)
  /\ \E e \in Range(edges) :
       e.kind = "import" /\ ~(InterFolder(e) /\ BothFoldersAreNodes(e))

\* C5: when the read of a scanned file fails, the build returns and its
\* output holds no node for that file.
C5_UnreadableFileIsNoNode ==
  /\ pc # "thrown"
  /\ Done => \A f \in Range(files) : Relative(f) \in noRead => f \notin NodeIds(result.nodes)

\* C6: both endpoints of every edge of the output are ids of nodes of the
\* output.
C6_EdgeEndpointsAreNodes ==
  Done =>
    \A k \in 1..Len(result.edges) :
      /\ result.edges[k].from \in NodeIds(result.nodes)
      /\ result.edges[k].to \in NodeIds(result.nodes)

C6_Witness ==
  /\ Done
  /\ \E e \in Range(edges) : e.kind = "import"
  /\ \E e \in Range(edges) : e.kind = "rollup"
  /\ \E e \in Range(edges) : e.kind = "hierarchy" /\ ~IsFileId(e.to)
  /\ \E e \in Range(edges) : e.kind = "hierarchy" /\ IsFileId(e.to)

\* the relative path of a node
RelOf(id) == IF IsFileId(id) THEN Relative(id) ELSE id

\* the folders a workspace may hold
AllFolders == UNION { { SubSeq(f, 1, n) : n \in 1..(Len(f) - 1) } : f \in ScanCandidates }

\* a file node lies at some depth beneath folder P
HasFileBeneath(ns, P) ==
  \E n \in FileNodeIds(ns) : IsPrefix(P, Relative(n)) /\ Len(P) < Len(Relative(n))

\* C7: a folder node with relative path P exists if and only if a file node
\* lies at some depth beneath P, and no node stands for the root.
C7_FolderNodeIffFileBeneath ==
  Done =>
    /\ \A P \in AllFolders \cup FolderNodeIds(result.nodes) :
         P \in FolderNodeIds(result.nodes) <=> HasFileBeneath(result.nodes, P)
    /\ \A id \in NodeIds(result.nodes) : id \notin { <<".">>, <<"(root)">>, <<Root>> }

C7_Witness ==
  /\ Done
  /\ <<"src", "sub">> \in FolderNodeIds(result.nodes)
  /\ <<"src">> \in FolderNodeIds(result.nodes)
  /\ \E d \in Dirs : d # <<>> /\ d \notin NodeIds(result.nodes)

\* C8: every folder node below another folder has exactly one hierarchy edge
\* from its immediate parent, every file directly in a folder has exactly one
\* hierarchy edge from that folder, and every hierarchy edge links a folder to
\* one of its immediate children.
C8_HierarchyEdges ==
  Done =>
    /\ \A P \in FolderNodeIds(nodes) :
         Len(P) >= 2 =>
           /\ HasNode(nodes, Front(P))
           /\ KindCount(edges, Front(P), P, "hierarchy") = 1
    /\ \A f \in FileNodeIds(nodes) :
         Len(Relative(f)) >= 2 =>
           /\ HasNode(nodes, Front(Relative(f)))
           /\ KindCount(edges, Front(Relative(f)), f, "hierarchy") = 1
    /\ \A e \in Range(edges) :
         e.kind = "hierarchy" => e.from = Front(RelOf(e.to))

C8_Witness ==
  /\ Done
  /\ Edge(<<"src">>, <<"src", "sub">>, "hierarchy") \in Range(edges)
  /\ Edge(<<"src", "sub">>, Abs(<<"src", "sub", "w.ts">>), "hierarchy") \in Range(edges)
  /\ \E f \in FileNodeIds(nodes) : Len(Relative(f)) = 1

\* a path with a pruned directory among its ancestors, or a folder that is
\* one
IsPruned(id) ==
  LET rel == RelOf(id)
      dirs == IF IsFileId(id) THEN Front(rel) ELSE rel
  IN  Range(dirs) \cap { "node_modules", ".git", "dist", "out", ".next", "build" } # {}

\* the path or one of its ancestors matches an ignore rule
IsIgnored(rel) == \E n \in 1..Len(rel) : Ignores(SubSeq(rel, 1, n))

\* C9: no path that matches an ignore rule and no path below a directory
\* named node_modules, .git, dist, out, .next or build is a node, at any time
\* of the build and in its output.
C9_ExcludedPathsAreNoNodes ==
  /\ \A id \in NodeIds(nodes) : ~IsIgnored(RelOf(id)) /\ ~IsPruned(id)
  /\ Done => \A id \in NodeIds(result.nodes) : ~IsIgnored(RelOf(id)) /\ ~IsPruned(id)

C9_Witness ==
  /\ Done
  /\ NodeIds(result.nodes) # {}
  /\ \E f \in tree : IsIgnored(f) /\ ~IsPruned(Abs(f))
  /\ \E f \in tree : IsPruned(Abs(f)) /\ ~IsIgnored(f)

\* a file below a directory whose read fails
BelowUnreadable(f) == \E n \in 0..(Len(f) - 1) : SubSeq(f, 1, n) \in noRead

\* the files of the workspace the scan accepts when every directory is read
Accepted(f) ==
  /\ f \in tree
  /\ ExtsTest(Last(f))
  /\ ~IsIgnored(f)
  /\ ~IsPruned(Abs(f))

\* C10: a directory whose read fails contributes no file, the accepted files
\* of all other directories are collected, each once, and the build returns.
C10_UnreadableDirIsSkipped ==
  /\ pc # "thrown"
  /\ pc # "walk" =>
       /\ Range(files) = { Abs(f) : f \in { g \in tree : Accepted(g) /\ ~BelowUnreadable(g) } }
       /\ Cardinality(Range(files)) = Len(files)

C10_Witness ==
  /\ Done
  /\ \E f \in tree : Accepted(f) /\ BelowUnreadable(f) /\ <<>> \notin noRead
  /\ files # <<>>
\* ---------------------------------------------------------------------------
\* the line count and the complexity score of each text, counted by hand:
\* split("\n").length, and 1 + the matches of the keyword pattern
ExpectedLoc(text) ==
  CASE text = "" -> 1
    [] text = "import 'b'\nif(a&&b){}" -> 2
    [] text = "require('b');require('b')" -> 1
    [] text = "import 'b'\nfor(" -> 2
    [] OTHER -> 1

ExpectedComplexity(text) ==
  CASE text = "" -> 1
    [] text = "import 'b'\nif(a&&b){}" -> 3
    [] text = "require('b');require('b')" -> 1
    [] text = "import 'b'\nfor(" -> 2
    [] OTHER -> 1

\* the nodes of ns whose id is id
NodesWithId(ns, id) == { k \in 1..Len(ns) : ns[k].id = id }

\* the import edges that leave a file, among the edges of the graph
ImportEdgesFrom(es, f) == { k \in 1..Len(es) : es[k].from = f /\ es[k].kind = "import" }

\* C11: a file the parser rejects does not make the build throw: the file is
\* a node whose loc and complexity are those of its raw text, and no import
\* edge leaves it, although its text holds an import.
C11_ParseFailureKeepsNode ==
  /\ (pc = "thrown" /\ result.at = "imports") => Relative(files[i - 1]) \notin badSyntax
  /\ \A f \in Range(files) : Relative(f) \in badSyntax =>
        /\ pc \in {"imports", "done"} =>
              /\ Cardinality(NodesWithId(nodes, f)) = 1
              /\ NodeOf(nodes, f).loc = ExpectedLoc(content[Relative(f)])
              /\ NodeOf(nodes, f).complexity = ExpectedComplexity(content[Relative(f)])
        /\ ImportEdgesFrom(edges, f) = {}
        /\ Done =>
              /\ Cardinality(NodesWithId(result.nodes, f)) = 1
              /\ NodeOf(result.nodes, f).loc = ExpectedLoc(content[Relative(f)])
              /\ \A g \in FileNodeIds(result.nodes) : EdgeCount(result.edges, f, g) = 0

\* a build that returned, of a workspace where a rejected file holds an
\* import of b while a parsed file has its import edge to b.ts
C11_Witness ==
  /\ Done
  /\ <<"a.ts">> \in badSyntax
  /\ SpecifiersIn(content[<<"a.ts">>]) = <<"b">>
  /\ \E g \in Range(files) : g # Abs(<<"a.ts">>) /\ EdgeCount(result.edges, g, Abs(<<"b.ts">>)) = 1
  /\ Abs(<<"a.ts">>) \in NodeIds(result.nodes)


\* ---------------------------------------------------------------------------
\* a specifier can stand for a scanned file: the basename of the file is the
\* specifier, the specifier plus .js or .ts, or an ending of the specifier
CanStandFor(dep, g) ==
  \/ Basename(g) \in { dep, dep \o ".js", dep \o ".ts" }
  \/ EndsWith(dep, Basename(g))

\* the ancestor folders of the files of the workspace
AncestorFolders == UNION { { SubSeq(f, 1, n) : n \in 1..(Len(f) - 1) } : f \in tree }

\* C12: a specifier that no resolution step matches adds no edge and no
\* node: the nodes are the scanned files and their ancestor folders, and
\* every edge between two files comes from a specifier of the importing file
\* that can stand for the target.
C12_UnresolvedSpecifierAddsNothing ==
  Done =>
    /\ NodeIds(result.nodes) = { Abs(f) : f \in tree } \cup AncestorFolders
    /\ \A f \in tree : \A g \in tree :
          EdgeCount(result.edges, Abs(f), Abs(g)) > 0 =>
            \E p \in 1..Len(imports[f]) : CanStandFor(imports[f][p], Abs(g))
    /\ \A f \in tree :
          (\A p \in 1..Len(imports[f]) : \A g \in tree : ~CanStandFor(imports[f][p], Abs(g))) =>
            \A k \in 1..Len(result.edges) : result.edges[k].from # Abs(f)

\* a build that returned, where one file imports left-pad, which nothing
\* matches, and another file has an import edge
C12_Witness ==
  /\ Done
  /\ \E f \in tree :
        /\ \E p \in 1..Len(imports[f]) : imports[f][p] = "left-pad"
        /\ \A k \in 1..Len(result.edges) : result.edges[k].from # Abs(f)
  /\ \E f \in tree : \E g \in tree : EdgeCount(result.edges, Abs(f), Abs(g)) = 1

\* ---------------------------------------------------------------------------
\* the commits of the k-th scanned file
CommitsAt(k) == gitLog[Relative(files[k])]

\* the scanned files that have a commit
Edited == { k \in 1..Len(files) : CommitsAt(k) > 0 }

\* the place of an edited file among the edited files: after those with more
\* commits and after those with as many commits that were scanned earlier
Rank(k) ==
  1 + Cardinality({ m \in Edited : \/ CommitsAt(m) > CommitsAt(k)
                                   \/ CommitsAt(m) = CommitsAt(k) /\ m < k })

\* C13: stats.mostEdited holds at most 5 entries, each a file with commits
\* > 0, in non-increasing order of commits, files of equal commits in scan
\* order, and no file left out has more commits than a file listed.
C13_MostEditedIsTopFive ==
  Done =>
    LET me == result.stats.mostEdited
    IN  /\ Len(me) <= 5
        /\ Len(me) = IF Cardinality(Edited) < 5 THEN Cardinality(Edited) ELSE 5
        /\ \A p \in 1..Len(me) : me[p].commits > 0
        /\ \A p \in 1..Len(me) : \A q \in 1..Len(me) : p < q => me[p].commits >= me[q].commits
        /\ \A k \in Edited : Rank(k) <= 5 =>
              me[Rank(k)] = [file |-> Basename(files[k]), commits |-> CommitsAt(k)]
        /\ \A k \in Edited : Rank(k) > 5 => \A p \in 1..Len(me) : me[p].commits >= CommitsAt(k)

\* a build that returned with six edited files, two of them with the most
\* commits, and a file left out of the list
C13_Witness ==
  /\ Done
  /\ Cardinality(Edited) = 6
  /\ Len(result.stats.mostEdited) = 5
  /\ result.stats.mostEdited[1].commits = MaxCommits
  /\ result.stats.mostEdited[2].commits = MaxCommits
  /\ result.stats.mostEdited[1].file # result.stats.mostEdited[2].file
  /\ result.stats.mostEdited[5].commits = 1

\* ---------------------------------------------------------------------------
\* the file nodes that sit directly in the root
RootFileNodes(ns) == { id \in FileNodeIds(ns) : Len(Relative(id)) = 1 }

\* C14 as stated: stats.clusters is the number of distinct folder nodes of
\* the output, for every tree.
C14_ClustersAreFolderNodes ==
  Done => result.stats.clusters = Cardinality(FolderNodeIds(result.nodes))

\* C14: stats.clusters is the number of distinct folder nodes of the output,
\* plus one when a file sits directly in the root: the root files form a
\* cluster that no folder node stands for.
C14_ClustersAreFolderNodesAndRoot ==
  Done => result.stats.clusters =
            Cardinality(FolderNodeIds(result.nodes))
              + (IF RootFileNodes(result.nodes) # {} THEN 1 ELSE 0)

\* a build that returned for a tree with a file in the root next to a file
\* two folders deep
C14_Witness ==
  /\ Done
  /\ RootFileNodes(result.nodes) # {}
  /\ <<"src", "sub">> \in FolderNodeIds(result.nodes)
  /\ result.stats.clusters = Cardinality(FolderNodeIds(result.nodes)) + 1

\* ---------------------------------------------------------------------------
\* the places of the file nodes in a sequence of nodes
FileNodePlaces(ns) == { k \in 1..Len(ns) : IsFileId(ns[k].id) }

RECURSIVE FileComplexitySum(_)
\* the sum of the complexity of the file nodes
FileComplexitySum(ns) ==
  IF ns = <<>> THEN 0
  ELSE (IF IsFileId(Head(ns).id) THEN Head(ns).complexity ELSE 0) + FileComplexitySum(Tail(ns))

\* h hundredths is the quotient sum / count rendered with 2 decimals: the
\* number of hundredths nearest to the quotient, the larger one of two
IsRounded(h, sum, count) ==
  /\ 2 * count * h - count <= 200 * sum
  /\ 200 * sum < 2 * count * h + count

\* C15: stats.avgComplexity is the sum of the complexity of the file nodes
\* divided by the number of file nodes, with 2 decimals, folder nodes not
\* counted, and 0 when there is no file node.
C15_AvgComplexityOverFileNodes ==
  Done =>
    LET count == Cardinality(FileNodePlaces(result.nodes))
    IN  IF count = 0
        THEN result.stats.avgComplexity = 0
        ELSE IsRounded(result.stats.avgComplexity, FileComplexitySum(result.nodes), count)

\* a build that returned folder nodes and three file nodes of complexity 1,
\* 1 and 3: the mean is 1.67
C15_Witness ==
  /\ Done
  /\ FolderNodeIds(result.nodes) # {}
  /\ Cardinality(FileNodePlaces(result.nodes)) = 3
  /\ FileComplexitySum(result.nodes) = 5
  /\ result.stats.avgComplexity = 167

\* the files of the workspace that the scan reaches and accepts
Eligible == { f \in tree : Accepted(f) /\ ~BelowUnreadable(f) }

\* C16: stats.totalFiles is the number of file nodes of the output, and
\* every eligible scanned file is exactly one file node whose id is its
\* absolute path.
C16_TotalFilesCountsFileNodes ==
  Done =>
    /\ result.stats.totalFiles = Cardinality(FileNodePlaces(result.nodes))
    /\ \A f \in Eligible :
          /\ Cardinality(NodesWithId(result.nodes, Abs(f))) = 1
          /\ NodeOf(result.nodes, Abs(f)).path = Abs(f)
    /\ FileNodeIds(result.nodes) = { Abs(f) : f \in Eligible }

\* a build that returned two file nodes or more and a folder node, for a
\* workspace that also holds a file the scan does not accept
C16_Witness ==
  /\ Done
  /\ result.stats.totalFiles >= 2
  /\ FolderNodeIds(result.nodes) # {}
  /\ tree \ Eligible # {}

\* C17: every file node has loc >= 1 and complexity >= 1, a node built from
\* an empty file included, in the graph and in the output.
C17_MetricsAtLeastOne ==
  /\ \A k \in FileNodePlaces(nodes) : nodes[k].loc >= 1 /\ nodes[k].complexity >= 1
  /\ Done => \A k \in FileNodePlaces(result.nodes) :
               result.nodes[k].loc >= 1 /\ result.nodes[k].complexity >= 1

\* a build that returned the node of an empty file, with loc 1 and
\* complexity 1
C17_Witness ==
  /\ Done
  /\ \E k \in FileNodePlaces(result.nodes) :
        /\ content[Relative(result.nodes[k].id)] = ""
        /\ result.nodes[k].loc = 1
        /\ result.nodes[k].complexity = 1

\* no file of the workspace has an extension of the allowlist
NoMatchingFile == \A f \in tree : ~ExtsTest(Last(f))

\* C18: when no file matches the extension allowlist the build does not
\* throw and returns no node, no edge, totalFiles 0 and clusters 0.
C18_NoMatchingFileIsEmptyGraph ==
  NoMatchingFile =>
    /\ pc # "thrown"
    /\ Done =>
          /\ result.nodes = <<>>
          /\ result.edges = <<>>
          /\ result.stats.totalFiles = 0
          /\ result.stats.clusters = 0

\* a build that returned for a workspace whose only file is lib/n.md
C18_Witness ==
  /\ Done
  /\ tree = { <<"lib", "n.md">> }
  /\ result.nodes = <<>>

\* ---------------------------------------------------------------------------
\* a call of buildRepoGraph settles in this step
Settles == pc \notin {"done", "thrown"} /\ pc' \in {"done", "thrown"}

C20_ExplanationIsAlwaysText ==
  /\ gem.pc # "rejected"
  /\ gem.pc = "resolved" => gem.out.kind = "text" /\ gem.out.text \in STRING
  /\ gin.key = "" =>
        /\ ~gem.requested
        /\ gem.pc = "resolved" => gem.out.text = "GEMINI_API_KEY missing."
  /\ gin.sdk = "fails" => ~gem.requested
  /\ (gem.pc = "resolved" /\ gin.key # "" /\ (gin.sdk = "fails" \/ gin.reply = "fails")) =>
        IsPrefix("Gemini request failed: ", gem.out.text)

\* a call that settled with the failure text after the request was made and
\* failed
C20_Witness ==
  /\ gem.pc = "resolved"
  /\ gem.requested
  /\ gin.reply = "fails"
  /\ gem.out = [kind |-> "text", text |-> "Gemini request failed: fetch failed"]

\* ---------------------------------------------------------------------------
\* the importer of the resolution workspaces and its one specifier
Importer == <<"m.ts">>

TheSpecifier == imports[Importer][1]

\* the files of the workspace whose basename is the specifier
ExactHits == { g \in tree : Last(g) = TheSpecifier }

\* the files whose basename is the specifier plus .js or .ts
ExtensionHits == { g \in tree : Last(g) \in { TheSpecifier \o ".js", TheSpecifier \o ".ts" } }

\* the files whose basename is a proper ending of the specifier
SuffixHits == { g \in tree : EndsWith(TheSpecifier, Last(g)) /\ Last(g) # TheSpecifier }

\* the files the output has an edge to from the importer
ImportTargets == { g \in tree : EdgeCount(result.edges, Abs(Importer), Abs(g)) > 0 }

\* C21: the resolution steps are tried in a fixed order and the first hit
\* wins: an exact basename match before a match with an extension appended,
\* that before a suffix match, which counts only when the two others miss.
C21_FirstHitWins ==
  Done =>
    /\ Cardinality(ImportTargets) <= 1
    /\ IF ExactHits # {} THEN ImportTargets = ExactHits
       ELSE IF ExtensionHits # {} THEN ImportTargets # {} /\ ImportTargets \subseteq ExtensionHits
       ELSE IF SuffixHits # {} THEN ImportTargets # {} /\ ImportTargets \subseteq SuffixHits
       ELSE ImportTargets = {}

\* a build that returned for a workspace where every step has a file to
\* hit: the edge goes to the exact match
C21_Witness ==
  /\ Done
  /\ ExactHits # {}
  /\ ExtensionHits # {}
  /\ SuffixHits # {}
  /\ ImportTargets = { <<"xa.c">> }

\* C22: a bare specifier with no exact match and no file of that name with
\* .js or .ts resolves to the scanned file of that name with .jsx or .tsx.
C22_JsxTsxAreTried ==
  (Done /\ ExactHits = {} /\ ExtensionHits = {}) =>
    \A g \in tree :
      Last(g) \in { TheSpecifier \o ".jsx", TheSpecifier \o ".tsx" } =>
        \E h \in ImportTargets : Last(h) \in { TheSpecifier \o ".jsx", TheSpecifier \o ".tsx" }

\* ---------------------------------------------------------------------------
\* the scanned files that share their basename with a file scanned later
Shadowed == { p \in 1..Len(files) : \E q \in (p + 1)..Len(files) : Basename(files[q]) = Basename(files[p]) }

\* the last scanned file of a basename
LastOfName(name) ==
  files[CHOOSE q \in 1..Len(files) :
          /\ Basename(files[q]) = name
          /\ \A r \in (q + 1)..Len(files) : Basename(files[r]) # name]

\* C23: when two scanned files share a basename the index maps the basename
\* to the one scanned later, and every specifier that hits the basename
\* gives an edge to the later file and none to the earlier one.
C23_LaterFileWinsTheBasename ==
  /\ pc \in {"imports", "done"} =>
        \A p \in 1..Len(files) : MapGet(fileIndex, Basename(files[p])) = LastOfName(Basename(files[p]))
  /\ Done =>
        \A p \in Shadowed : \A f \in Range(files) :
          /\ EdgeCount(result.edges, f, files[p]) = 0
          /\ (\E n \in 1..Len(imports[Relative(f)]) : CanStandFor(imports[Relative(f)][n], files[p])) =>
                EdgeCount(result.edges, f, LastOfName(Basename(files[p]))) = 1

\* a build that returned for a workspace with b.ts and src/b.ts, where a.ts
\* imports b and has its edge to src/b.ts, the later of the two
C23_Witness ==
  /\ Done
  /\ Shadowed # {}
  /\ <<"a.ts">> \in tree
  /\ "b" \in Range(imports[<<"a.ts">>])
  /\ EdgeCount(result.edges, Abs(<<"a.ts">>), Abs(<<"src", "b.ts">>)) = 1
  /\ EdgeCount(result.edges, Abs(<<"a.ts">>), Abs(<<"b.ts">>)) = 0

\* ---------------------------------------------------------------------------
\* the scanned files that can be read
Readable == { f \in Range(files) : Relative(f) \notin noRead }

\* C24: in the flat build every import whose specifier resolves to a scanned
\* readable file gives the edge importer -> target in the output, whether
\* the target is scanned before or after the importer.
C24_FlatEdgeWhateverTheOrder ==
  Done =>
    \A f \in Readable : \A n \in 1..Len(ImportsOf(f)) :
      LET g == Resolve(IndexAll(files, <<>>), ImportsOf(f)[n])
      IN  g \in Readable => EdgeCount(result.edges, f, g) = 1

\* ---------------------------------------------------------------------------
\* the basename index of the whole scan
FullIndex == IndexAll(Walk(<<>>), <<>>)

\* file f holds a specifier that resolves to file g
ImportsFile(f, g) ==
  \E n \in 1..Len(imports[f]) : Resolve(FullIndex, imports[f][n]) = Abs(g)

\* C25: when two files import each other the build does not throw and the
\* output holds the edge a -> b and the edge b -> a.
C25_MutualImportsGiveBothEdges ==
  \A f \in tree : \A g \in tree :
    (f # g /\ ImportsFile(f, g) /\ ImportsFile(g, f)) =>
      /\ pc # "thrown"
      /\ Done => /\ EdgeCount(result.edges, Abs(f), Abs(g)) = 1
                 /\ EdgeCount(result.edges, Abs(g), Abs(f)) = 1

\* ---------------------------------------------------------------------------
\* f is the one importing file of the workspace and holds one specifier
OnlyImport(f) ==
  /\ Len(imports[f]) = 1
  /\ \A h \in tree \ {f} : imports[h] = <<>>

\* C28: when a file in folder P imports a file in the immediate child folder
\* C of P, the build does not throw and the graph holds the hierarchy edge
\* P -> C and the rollup edge P -> C.
C28_HierarchyAndRollupCoexist ==
  \A f \in tree : \A g \in tree :
    (/\ OnlyImport(f)
     /\ ImportsFile(f, g)
     /\ Len(f) > 1
     /\ Front(g) # Front(f)
     /\ Front(Front(g)) = Front(f)) =>
      /\ pc # "thrown"
      /\ Done => /\ KindCount(edges, Front(f), Front(g), "hierarchy") = 1
                 /\ KindCount(edges, Front(f), Front(g), "rollup") = 1

\* ---------------------------------------------------------------------------
\* the number of tokens of each text as the sentence counts them: a keyword
\* that stands alone, and every && and || between two operands
TokensByTheSentence(text) ==
  CASE text = "if(x)" -> 1
    [] text = "iffy" -> 0
    [] text = "elif x" -> 0
    [] text = "for(;;)while(1)" -> 2
    [] text = "case 1:catch(e)" -> 2
    [] text = "a&&b" -> 1
    [] text = "a && b" -> 1
    [] text = "a||b" -> 1
    [] text = "a || b" -> 1
    [] text = "if (a && b || c) {}" -> 3
    [] OTHER -> 0

\* C27: the complexity of a file is 1 plus the number of its tokens if, for,
\* while, case, catch, && and ||: a keyword inside a longer identifier adds
\* nothing, an operator adds 1 with or without blanks around it.
C27_ComplexityCountsEveryToken ==
  \A k \in FileNodePlaces(nodes) :
    nodes[k].complexity = 1 + TokensByTheSentence(content[Relative(nodes[k].id)])

\* ---------------------------------------------------------------------------
\* C26: every ready message the handler receives is in the end answered by
\* a graphData message, whatever the workspace holds.
C26_ReadyIsAnswered ==
  \A k \in Ready : (host.st[k] = "building") ~> (host.st[k] = "posted")

\* ---------------------------------------------------------------------------
\* the ready messages whose build is running
Building == { k \in Ready : host.st[k] = "building" }

\* the ready messages whose build has returned a graph
Returned == { k \in Ready : host.st[k] \in {"awaiting", "posted"} }

\* C30: with several ready messages, at most one build runs at a time and
\* it holds the thread from its call to its end; a build starts from an
\* empty graph and an empty index of its own; every graphData posted is the
\* graph of the first build, which ran alone, and a later build fails only
\* if the first one did.
C30_BuildsDoNotInterleave ==
  /\ Cardinality(Building) <= 1
  /\ pc \in {"walk", "folders", "folderNodes", "folderEdges", "fileNodes", "imports"} =>
        /\ host.thread = run
        /\ Building = {run}
  /\ pc = "walk" => files = <<>> /\ fileIndex = <<>> /\ nodes = <<>> /\ edges = <<>>
  /\ \A k \in Returned : \A j \in Returned :
        /\ host.value[k].status = "returned"
        /\ host.value[k] = host.value[j]
  /\ \A p \in 1..Len(host.posted) :
        /\ host.posted[p].type = "graphData"
        /\ host.posted[p].data = host.value[host.posted[p].of]
  /\ \A k \in Ready : host.st[k] = "failed" => Returned = {}

\* two ready messages were answered, each with the same graph of nodes and
\* edges
C30_Witness ==
  /\ Len(host.posted) = 2
  /\ host.posted[1].of # host.posted[2].of
  /\ host.posted[1].data.nodes # <<>>
  /\ host.posted[1].data.edges # <<>>
  /\ host.posted[2].data = host.posted[1].data

\* C29: every explainFile message sent for the path of a node of the
\* delivered graph, file node or folder node, is eventually answered by an
\* explanation message whose explanation is text, and the handler never
\* ends in a fault.
C29_ExplainIsAnswered ==
  (host.ex = "sent")
    ~> (/\ host.ex = "posted"
        /\ host.posted[Len(host.posted)].type = "explanation"
        /\ host.posted[Len(host.posted)].path = host.exPath
        /\ host.posted[Len(host.posted)].explanation.kind = "text")

=============================================================================
